---------------------------- MODULE Spec2Model ----------------------------
(***************************************************************************)
(* Payment-event orchestration layer of functions/index.js: the Stripe     *)
(* handlers createStripeCharge, addPaymentSource, createTheStripeCustomer  *)
(* and cleanupUser, with reportError and userFacingMessage, run against    *)
(* the Realtime Database, the payment provider and the logging sink.       *)
(*                                                                         *)
(* A database record is a function from its field names to strings; the    *)
(* record with no field is the database's null (snapshot.val() === null).  *)
(* Every handler invocation is a promise chain: each link of the chain is  *)
(* one action, so invocations interleave between links.                    *)
(***************************************************************************)
EXTENDS Naturals, Sequences, FiniteSets, TLC

VARIABLES
  config,          \* functions.config().stripe.currency
  customer_id,     \* /stripe_customers/{userId}/customer_id
  charges,         \* /stripe_customers/{userId}/charges/{id}
  sources,         \* /stripe_customers/{userId}/sources/{pushId}
  accounts,        \* the auth provider's accounts: "none", "active", "deleted"
  pending,         \* write notifications not yet delivered
  delivered,       \* write notifications delivered at least once
  redelivered,     \* number of redeliveries so far
  returned,        \* notifications whose invocation returned null at its guard
  inv,             \* the other handler invocations, in the order they started
  stripeCustomers, \* provider: the customers that exist
  stripeCharges,   \* provider: the charges created, in order
  stripeSources,   \* provider: the payment sources attached, in order
  idempotency,     \* provider: idempotency key -> saved result
  calls,           \* provider: every request received
  writes,          \* database: every write a handler made
  reports          \* logging sink: the entries written

vars == <<config, customer_id, charges, sources, accounts, pending, delivered,
          redelivered, returned, inv, stripeCustomers, stripeCharges, stripeSources,
          idempotency, calls, writes, reports>>

-----------------------------------------------------------------------------
(* Bounds *)

\* Redeliveries of already delivered notifications (at-least-once delivery).
MaxRedeliver == 1

\* Invocations that go past their guard in one run: the handlers of account
\* creation and deletion, or of the client's one write, and the redeliveries.
MaxInv == 2 + MaxRedeliver

Users == {"u1"}
ChargeIds == {"c1"}
PushIds == {"s1"}

-----------------------------------------------------------------------------
(* JavaScript values *)

UNDEF == "<undefined>"
JSNULL == "<null>"

\* The database's null: a node with no children.
EmptyRec == [f \in {} |-> UNDEF]

\* val.f : a missing property reads as undefined.
Get(rec, f) == IF f \in DOMAIN rec THEN rec[f] ELSE UNDEF

\* ref.child(f).set(v)
WithField(rec, f, v) == [g \in DOMAIN rec \cup {f} |-> IF g = f THEN v ELSE rec[g]]

\* JavaScript truthiness of a string-or-missing value.
Truthy(v) == v # UNDEF /\ v # JSNULL /\ v # ""

\* What the client pushes under charges/{id}: an amount and an optional source
\* (a source of null is not stored by the database).
Requests == { [amount |-> "500"], [amount |-> "700", source |-> "tok_visa"] }

\* What the client writes under sources/{pushId}: the token of a card.
Tokens == {"tok_visa"}

\* Errors a promise of the chain can reject with: provider errors carry a type.
CardError == [type |-> "card_error", message |-> "Your card was declined."]
NoCustomerError == [type |-> "invalid_request_error", message |-> "No such customer"]
ConnError == [type |-> UNDEF, message |-> "connect ECONNREFUSED 10.0.0.7:443"]
DbError == [type |-> UNDEF, message |-> "PERMISSION_DENIED at /stripe_customers"]
SinkError == [type |-> UNDEF, message |-> "logging: deadline exceeded"]
TokenUsedError == [type |-> "invalid_request_error",
                   message |-> "You cannot use a Stripe token more than once"]
MissingIdError == [type |-> UNDEF, message |-> "Stripe: id must be a string, but got: object"]
NoError == [type |-> UNDEF, message |-> UNDEF]

FallbackMessage == "An error occurred, developers have been alerted"

-----------------------------------------------------------------------------
(* Pure parts of functions/index.js *)

\* const currency = functions.config().stripe.currency || 'USD'
currency == IF Truthy(config) THEN config ELSE "USD"

\* function userFacingMessage(error)
\* (variants: the message always passed through; always replaced)
userFacingMessageRaw(error) == error.message
userFacingMessageGeneric(error) == FallbackMessage
userFacingMessage(error) ==
  IF Truthy(error.type) THEN error.message ELSE FallbackMessage

\* if (val === null || val.id || val.error) return null;
\* (variants: the guard without its val.id, val.error or val === null test)
GuardNoIdCheck(val) == val = EmptyRec \/ Truthy(Get(val, "error"))
GuardNoErrorCheck(val) == val = EmptyRec \/ Truthy(Get(val, "id"))
GuardNoNullCheck(val) == Truthy(Get(val, "id")) \/ Truthy(Get(val, "error"))
Guard(val) ==
  val = EmptyRec \/ Truthy(Get(val, "id")) \/ Truthy(Get(val, "error"))

\* const idempotency_key = event.params.id;
\* (variant: the request sent without a key)
NoIdempotencyKey(userId, id) == UNDEF
IdempotencyKey(userId, id) == id

\* let charge = {amount, currency, customer};
\* if (val.source !== null) charge.source = val.source;
\* (variant: the currency not taken from the configuration)
ChargeFixedCurrency(val, customer) ==
  [amount |-> Get(val, "amount"), currency |-> "USD", customer |-> customer,
   source |-> Get(val, "source")]
Charge(val, customer) ==
  LET base == [amount |-> Get(val, "amount"), currency |-> currency,
               customer |-> customer]
  IN  IF Get(val, "source") # JSNULL
        THEN WithField(base, "source", Get(val, "source"))
        ELSE base

\* The request as sent: the client library leaves out undefined properties.
Wire(obj) == [f \in {g \in DOMAIN obj : obj[g] # UNDEF} |-> obj[f]]

\* err.stack: the raw error, its message included.
Stack(err) == "Error: " \o err.message \o "\n    at ..."

\* reportError(error, {user: event.params.userId}): the errorEvent of the log
\* entry, {message: err.stack, serviceContext, context}.
ErrorEvent(err, userId) ==
  [message |-> Stack(err), context |-> [user |-> userId]]


-----------------------------------------------------------------------------
(* The event bus and the handler invocations *)

\* The write notification of /stripe_customers/{userId}/charges/{id}, or of
\* /stripe_customers/{userId}/sources/{pushId}/token (val: the leaf, under
\* the name token; no field when the leaf is null).
Notification(path, userId, id, val) ==
  [path |-> path, user |-> userId, id |-> id, val |-> val]

\* The invocation of createStripeCharge that went past the guard: the first
\* promise of its chain is the customer read.
\* (variant: a chain that starts at the provider call)
StartChargeNoRead(e) ==
  [fn |-> "createStripeCharge", user |-> e.user, id |-> e.id, val |-> e.val,
   pc |-> "charge",
   customer |-> UNDEF, subtree |-> EmptyRec, response |-> EmptyRec,
   error |-> NoError, rejection |-> NoError]
StartCharge(e) ==
  [fn |-> "createStripeCharge", user |-> e.user, id |-> e.id, val |-> e.val,
   pc |-> "read",
   customer |-> UNDEF, subtree |-> EmptyRec, response |-> EmptyRec,
   error |-> NoError, rejection |-> NoError]

Running(i) == i \in 1..Len(inv)

\* const source = event.data.val(); if (source === null) return null;
\* (variant: the handler without its null test)
SourceGuardNone(val) == FALSE
SourceGuard(val) == val = EmptyRec

\* The invocation of addPaymentSource that went past the guard.
StartSource(e) ==
  [fn |-> "addPaymentSource", user |-> e.user, id |-> e.id, val |-> e.val,
   pc |-> "read",
   customer |-> UNDEF, subtree |-> EmptyRec, response |-> EmptyRec,
   error |-> NoError, rejection |-> NoError]

\* The event trigger adapter: the path pattern selects the handler.
Start(e) == IF e.path = "charges" THEN StartCharge(e) ELSE StartSource(e)

\* The guards run on the notification's own snapshot, before any promise: an
\* invocation they stop returns null and does nothing else.
Returns(e) == IF e.path = "charges" THEN Guard(e.val) ELSE SourceGuard(e.val)

Finished(i) == Running(i) /\ inv[i].pc \in {"resolved", "rejected"}

Writes(i, path, userId, id, child, rec, str) ==
  [inv |-> i, path |-> path, user |-> userId, id |-> id, child |-> child,
   rec |-> rec, str |-> str]

\* The client pushes a charge request under a fresh push id.
ClientPush(userId, id, req) ==
  /\ charges[userId][id] = EmptyRec
  /\ pending \cup delivered = {}
  /\ charges' = [charges EXCEPT ![userId][id] = req]
  /\ pending' = pending \cup {Notification("charges", userId, id, req)}
  /\ UNCHANGED <<config, customer_id, sources, accounts, delivered,
                 redelivered, inv, stripeCustomers, stripeCharges,
                 stripeSources, idempotency, calls, writes, reports,
                 returned>>

\* The client deletes a charge record.
ClientRemove(userId, id) ==
  /\ charges[userId][id] # EmptyRec
  /\ Notification("charges", userId, id, EmptyRec) \notin pending \cup delivered
  /\ charges' = [charges EXCEPT ![userId][id] = EmptyRec]
  /\ pending' = pending \cup {Notification("charges", userId, id, EmptyRec)}
  /\ UNCHANGED <<config, customer_id, sources, accounts, delivered,
                 redelivered, inv, stripeCustomers, stripeCharges,
                 stripeSources, idempotency, calls, writes, reports,
                 returned>>

\* First delivery of a notification.
Deliver(e) ==
  /\ e \in pending
  /\ Returns(e) \/ Len(inv) < MaxInv
  /\ pending' = pending \ {e}
  /\ delivered' = delivered \cup {e}
  /\ returned' = IF Returns(e) THEN returned \cup {e} ELSE returned
  /\ inv' = IF Returns(e) THEN inv ELSE Append(inv, Start(e))
  /\ UNCHANGED <<config, customer_id, charges, sources, accounts, redelivered,
                 stripeCustomers, stripeCharges, stripeSources, idempotency, calls, writes,
                 reports>>

\* At-least-once delivery: the platform delivers a notification again.
Redeliver(e) ==
  /\ e \in delivered
  /\ redelivered < MaxRedeliver
  /\ Returns(e) \/ Len(inv) < MaxInv
  /\ redelivered' = redelivered + 1
  /\ returned' = IF Returns(e) THEN returned \cup {e} ELSE returned
  /\ inv' = IF Returns(e) THEN inv ELSE Append(inv, Start(e))
  /\ UNCHANGED <<config, customer_id, charges, sources, accounts, pending, delivered,
                 stripeCustomers, stripeCharges, stripeSources, idempotency, calls, writes,
                 reports>>

-----------------------------------------------------------------------------
(* The payment provider, as the handlers see it *)

ChargeObjectIds == <<"ch_1", "ch_2", "ch_3", "ch_4", "ch_5", "ch_6", "ch_7", "ch_8">>

Saved(response, error) == [response |-> response, error |-> error]

\* The results stripe.charges.create(charge, {idempotency_key}) can have. A key
\* the provider has seen replays the result saved under it; otherwise the
\* provider charges a customer it knows, declines, or cannot be reached.
ChargeResults(payload, key) ==
  IF Truthy(key) /\ key \in DOMAIN idempotency
    THEN {idempotency[key]}
    ELSE {Saved(EmptyRec, ConnError)} \cup
         IF Get(payload, "customer") \in stripeCustomers
           THEN {Saved(WithField(payload, "id",
                                 ChargeObjectIds[Len(stripeCharges) + 1]), NoError),
                 Saved(EmptyRec, CardError)}
           ELSE {Saved(EmptyRec, NoCustomerError)}

CreatesCharge(key, res) ==
  ~(Truthy(key) /\ key \in DOMAIN idempotency) /\ res.response # EmptyRec

\* The provider saves every result it produced itself under the request's key.
SavesResult(key, res) ==
  Truthy(key) /\ key \notin DOMAIN idempotency /\ res.error # ConnError

-----------------------------------------------------------------------------
(* exports.createStripeCharge *)

\* (variant: a handler that stops when the account has no customer record)
ReadCustomerGuarded(i) ==
  /\ Running(i)
  /\ inv[i].fn = "createStripeCharge"
  /\ inv[i].pc = "read"
  /\ inv' = [inv EXCEPT ![i].pc = IF customer_id[inv[i].user] = JSNULL
                                    THEN "rejected" ELSE "charge",
                         ![i].customer = customer_id[inv[i].user]]
  /\ UNCHANGED <<config, customer_id, charges, sources, accounts, pending,
                 delivered, redelivered, stripeCustomers, stripeCharges,
                 stripeSources, idempotency, calls, writes, reports,
                 returned>>

\* admin.database().ref(`/stripe_customers/${userId}/customer_id`).once('value')
ReadCustomer(i) ==
  /\ Running(i)
  /\ inv[i].fn = "createStripeCharge"
  /\ inv[i].pc = "read"
  /\ inv' = [inv EXCEPT ![i].pc = "charge",
                         ![i].customer = customer_id[inv[i].user]]
  /\ UNCHANGED <<config, customer_id, charges, sources, accounts, pending,
                 delivered, redelivered, stripeCustomers, stripeCharges,
                 stripeSources, idempotency, calls, writes, reports,
                 returned>>

\* stripe.charges.create(charge, {idempotency_key})
CreateCharge(i) ==
  /\ Running(i)
  /\ inv[i].fn = "createStripeCharge"
  /\ inv[i].pc = "charge"
  /\ Len(stripeCharges) < Len(ChargeObjectIds)
  /\ LET key == IdempotencyKey(inv[i].user, inv[i].id)
         payload == Wire(Charge(inv[i].val, inv[i].customer))
     IN  /\ calls' = calls \cup {[inv |-> i, method |-> "charges.create",
                                  payload |-> payload, key |-> key]}
         /\ \E res \in ChargeResults(payload, key) :
              /\ stripeCharges' = IF CreatesCharge(key, res)
                                    THEN Append(stripeCharges,
                                                [key |-> key, inv |-> i, charge |-> res.response])
                                    ELSE stripeCharges
              /\ idempotency' = IF SavesResult(key, res)
                                  THEN [k \in DOMAIN idempotency \cup {key} |->
                                          IF k = key THEN res ELSE idempotency[k]]
                                  ELSE idempotency
              /\ inv' = [inv EXCEPT ![i] =
                           IF res.response # EmptyRec
                             THEN [@ EXCEPT !.pc = "set", !.response = res.response]
                             ELSE [@ EXCEPT !.pc = "seterr", !.error = res.error]]
  /\ UNCHANGED <<config, customer_id, charges, sources, accounts, pending,
                 delivered, redelivered, stripeCustomers, stripeSources,
                 writes, reports, returned>>

\* ref.set(value): the value replaces whatever the node held.
\* (variant: update(value), which keeps the children the value does not name)
AdminRefUpdate(rec, value) ==
  [f \in DOMAIN rec \cup DOMAIN value |->
     IF f \in DOMAIN value THEN value[f] ELSE rec[f]]
AdminRefSet(rec, value) == value

\* response => event.data.adminRef.set(response)
SetResponse(i) ==
  /\ Running(i)
  /\ inv[i].fn = "createStripeCharge"
  /\ inv[i].pc = "set"
  /\ LET u == inv[i].user
         id == inv[i].id
         response == inv[i].response
     IN  \E ok \in BOOLEAN :
           IF ok
             THEN /\ charges' = [charges EXCEPT ![u][id] = AdminRefSet(@, response)]
                  /\ pending' = pending \cup
                       {Notification("charges", u, id,
                                     AdminRefSet(charges[u][id], response))}
                  /\ writes' = writes \cup {Writes(i, "charges", u, id, "", response, UNDEF)}
                  /\ inv' = [inv EXCEPT ![i].pc = "resolved"]
             ELSE /\ inv' = [inv EXCEPT ![i].pc = "rejected",
                                        ![i].rejection = DbError]
                  /\ UNCHANGED <<charges, pending, writes>>
  /\ UNCHANGED <<config, customer_id, sources, accounts, delivered,
                 redelivered, stripeCustomers, stripeCharges, stripeSources,
                 idempotency, calls, reports, returned>>

\* ...child('error').set(message).then(() => reportError(...)): the report is
\* chained on the success of the error's write.
\* (variant: the report made whether or not the write succeeded)
AfterSetErrorAlways(ok) == "report"
AfterSetError(ok) == IF ok THEN "report" ELSE "rejected"

\* error => event.data.adminRef.child('error').set(userFacingMessage(error))
SetError(i) ==
  /\ Running(i)
  /\ inv[i].fn = "createStripeCharge"
  /\ inv[i].pc = "seterr"
  /\ LET u == inv[i].user
         id == inv[i].id
         message == userFacingMessage(inv[i].error)
         rec == WithField(charges[u][id], "error", message)
     IN  \E ok \in BOOLEAN :
           IF ok
             THEN /\ charges' = [charges EXCEPT ![u][id] = rec]
                  /\ pending' = pending \cup {Notification("charges", u, id, rec)}
                  /\ writes' = writes \cup {Writes(i, "charges", u, id, "error", EmptyRec, message)}
                  /\ inv' = [inv EXCEPT ![i].pc = AfterSetError(TRUE)]
             ELSE /\ inv' = [inv EXCEPT ![i].pc = AfterSetError(FALSE),
                                        ![i].rejection = DbError]
                  /\ UNCHANGED <<charges, pending, writes>>
  /\ UNCHANGED <<config, customer_id, sources, accounts, delivered,
                 redelivered, stripeCustomers, stripeCharges, stripeSources,
                 idempotency, calls, reports, returned>>

\* reportError: log.write(entry, error => { if (error) reject(error); resolve(); })
\* The promise settles once: rejected when the sink failed, resolved otherwise,
\* and it is the last promise of the handler's chain.
\* (variant: a reporter that swallows the sink's failure)
AfterReportSwallowed(ok) == "resolved"
AfterReport(ok) == IF ok THEN "resolved" ELSE "rejected"

\* .then(() => reportError(error, {user: event.params.userId}))
ReportError(i) ==
  /\ Running(i)
  /\ inv[i].fn = "createStripeCharge"
  /\ inv[i].pc = "report"
  /\ \E ok \in BOOLEAN :
       IF ok
         THEN /\ reports' = reports \cup
                   {[inv |-> i, entry |-> ErrorEvent(inv[i].error, inv[i].user)]}
              /\ inv' = [inv EXCEPT ![i].pc = AfterReport(TRUE)]
         ELSE /\ inv' = [inv EXCEPT ![i].pc = AfterReport(FALSE),
                                    ![i].rejection = SinkError]
              /\ UNCHANGED reports
  /\ UNCHANGED <<config, customer_id, charges, sources, accounts, pending,
                 delivered, redelivered, stripeCustomers, stripeCharges,
                 stripeSources, idempotency, calls, writes, returned>>

-----------------------------------------------------------------------------
(* exports.addPaymentSource *)

\* The client writes the token of a card under a fresh push id.
ClientAddToken(userId, pushId, token) ==
  /\ sources[userId][pushId] = EmptyRec
  /\ pending \cup delivered = {}
  /\ sources' = [sources EXCEPT ![userId][pushId] = [token |-> token]]
  /\ pending' = pending \cup
       {Notification("sources", userId, pushId, [token |-> token])}
  /\ UNCHANGED <<config, customer_id, charges, accounts, delivered,
                 redelivered, inv, stripeCustomers, stripeCharges,
                 stripeSources, idempotency, calls, writes, reports,
                 returned>>

SourceObjectIds == <<"card_1", "card_2", "card_3", "card_4", "card_5", "card_6", "card_7", "card_8">>

\* The results stripe.customers.createSource(customer, {source}) can have: the
\* client library refuses an id that is no string, and the provider accepts a
\* token once.
SourceResults(customer, source) ==
  IF customer \notin stripeCustomers
    THEN {Saved(EmptyRec, MissingIdError)}
    ELSE {Saved(EmptyRec, ConnError)} \cup
         IF \E n \in 1..Len(stripeSources) : stripeSources[n].token = source
           THEN {Saved(EmptyRec, TokenUsedError)}
           ELSE {Saved([id |-> SourceObjectIds[Len(stripeSources) + 1],
                        object |-> "card", customer |-> customer], NoError),
                 Saved(EmptyRec, CardError)}

\* admin.database().ref(`/stripe_customers/${userId}/customer_id`).once('value')
ReadCustomerForSource(i) ==
  /\ Running(i)
  /\ inv[i].fn = "addPaymentSource"
  /\ inv[i].pc = "read"
  /\ inv' = [inv EXCEPT ![i].pc = "attach",
                         ![i].customer = customer_id[inv[i].user]]
  /\ UNCHANGED <<config, customer_id, charges, sources, accounts, pending,
                 delivered, redelivered, stripeCustomers, stripeCharges,
                 stripeSources, idempotency, calls, writes, reports,
                 returned>>

\* stripe.customers.createSource(customer, {source})
CreateSource(i) ==
  /\ Running(i)
  /\ inv[i].fn = "addPaymentSource"
  /\ inv[i].pc = "attach"
  /\ Len(stripeSources) < Len(SourceObjectIds)
  /\ LET customer == inv[i].customer
         source == inv[i].val.token
     IN  /\ calls' = calls \cup {[inv |-> i, method |-> "customers.createSource",
                                  payload |-> [customer |-> customer, source |-> source],
                                  key |-> UNDEF]}
         /\ \E res \in SourceResults(customer, source) :
              /\ stripeSources' = IF res.response # EmptyRec
                                    THEN Append(stripeSources,
                                                [token |-> source, inv |-> i,
                                                 source |-> res.response])
                                    ELSE stripeSources
              /\ inv' = [inv EXCEPT ![i] =
                           IF res.response # EmptyRec
                             THEN [@ EXCEPT !.pc = "set", !.response = res.response]
                             ELSE [@ EXCEPT !.pc = "seterr", !.error = res.error]]
  /\ UNCHANGED <<config, customer_id, charges, sources, accounts, pending,
                 delivered, redelivered, stripeCustomers, stripeCharges,
                 idempotency, writes, reports, returned>>

\* response => event.data.adminRef.parent.set(response): the response replaces
\* the parent record, token leaf included, which notifies the token path.
SetSourceResponse(i) ==
  /\ Running(i)
  /\ inv[i].fn = "addPaymentSource"
  /\ inv[i].pc = "set"
  /\ LET u == inv[i].user
         id == inv[i].id
         response == inv[i].response
     IN  \E ok \in BOOLEAN :
           IF ok
             THEN /\ sources' = [sources EXCEPT ![u][id] = response]
                  /\ pending' = IF "token" \in DOMAIN sources[u][id]
                                  THEN pending \cup
                                         {Notification("sources", u, id, EmptyRec)}
                                  ELSE pending
                  /\ writes' = writes \cup
                       {Writes(i, "sources", u, id, "", response, UNDEF)}
                  /\ inv' = [inv EXCEPT ![i].pc = "resolved"]
             ELSE /\ inv' = [inv EXCEPT ![i].pc = "rejected",
                                        ![i].rejection = DbError]
                  /\ UNCHANGED <<sources, pending, writes>>
  /\ UNCHANGED <<config, customer_id, charges, accounts, delivered,
                 redelivered, stripeCustomers, stripeCharges, stripeSources,
                 idempotency, calls, reports, returned>>

\* error => event.data.adminRef.parent.child('error').set(userFacingMessage(error)):
\* a sibling of the token leaf, so the token path is not notified.
SetSourceError(i) ==
  /\ Running(i)
  /\ inv[i].fn = "addPaymentSource"
  /\ inv[i].pc = "seterr"
  /\ LET u == inv[i].user
         id == inv[i].id
         message == userFacingMessage(inv[i].error)
     IN  \E ok \in BOOLEAN :
           IF ok
             THEN /\ sources' = [sources EXCEPT ![u][id] =
                                   WithField(sources[u][id], "error", message)]
                  /\ writes' = writes \cup
                       {Writes(i, "sources", u, id, "error", EmptyRec, message)}
                  /\ inv' = [inv EXCEPT ![i].pc = AfterSetError(TRUE)]
             ELSE /\ inv' = [inv EXCEPT ![i].pc = AfterSetError(FALSE),
                                        ![i].rejection = DbError]
                  /\ UNCHANGED <<sources, writes>>
  /\ UNCHANGED <<config, customer_id, charges, accounts, pending, delivered,
                 redelivered, stripeCustomers, stripeCharges, stripeSources,
                 idempotency, calls, reports, returned>>

\* .then(() => reportError(error, {user: event.params.userId}))
ReportSourceError(i) ==
  /\ Running(i)
  /\ inv[i].fn = "addPaymentSource"
  /\ inv[i].pc = "report"
  /\ \E ok \in BOOLEAN :
       IF ok
         THEN /\ reports' = reports \cup
                   {[inv |-> i, entry |-> ErrorEvent(inv[i].error, inv[i].user)]}
              /\ inv' = [inv EXCEPT ![i].pc = AfterReport(TRUE)]
         ELSE /\ inv' = [inv EXCEPT ![i].pc = AfterReport(FALSE),
                                    ![i].rejection = SinkError]
              /\ UNCHANGED reports
  /\ UNCHANGED <<config, customer_id, charges, sources, accounts, pending,
                 delivered, redelivered, stripeCustomers, stripeCharges,
                 stripeSources, idempotency, calls, writes, returned>>

-----------------------------------------------------------------------------
(* The charge and payment-source orchestrators: one request of one account,
   registered with the provider or not *)

CustomerOf(userId) == "cus_" \o userId

Init ==
  /\ config \in {UNDEF, "eur"}
  /\ \E registered \in SUBSET Users :
       /\ customer_id = [u \in Users |-> IF u \in registered THEN CustomerOf(u) ELSE JSNULL]
       /\ stripeCustomers = {CustomerOf(u) : u \in registered}
  /\ accounts = [u \in Users |-> "active"]
  /\ charges = [u \in Users |-> [id \in ChargeIds |-> EmptyRec]]
  /\ sources = [u \in Users |-> [id \in PushIds |-> EmptyRec]]
  /\ stripeSources = <<>>
  /\ pending = {}
  /\ delivered = {}
  /\ redelivered = 0
  /\ returned = {}
  /\ inv = <<>>
  /\ stripeCharges = <<>>
  /\ idempotency = [k \in {} |-> Saved(EmptyRec, NoError)]
  /\ calls = {}
  /\ writes = {}
  /\ reports = {}

Handlers ==
  \E i \in 1..MaxInv :
    \/ ReadCustomer(i)
    \/ CreateCharge(i)
    \/ SetResponse(i)
    \/ SetError(i)
    \/ ReportError(i)
    \/ ReadCustomerForSource(i)
    \/ CreateSource(i)
    \/ SetSourceResponse(i)
    \/ SetSourceError(i)
    \/ ReportSourceError(i)

Bus == \E e \in pending : Deliver(e)

Next ==
  \/ \E u \in Users, id \in ChargeIds, req \in Requests : ClientPush(u, id, req)
  \/ \E u \in Users, id \in ChargeIds : ClientRemove(u, id)
  \/ \E u \in Users, id \in PushIds, token \in Tokens : ClientAddToken(u, id, token)
  \/ Bus
  \/ \E e \in delivered : Redeliver(e)
  \/ Handlers

Spec == Init /\ [][Next]_vars

\* The platform runs every started invocation and delivers every notification.
FairSpec == Spec /\ WF_vars(Bus \/ Handlers)

-----------------------------------------------------------------------------
(* Customer registry sync: exports.createTheStripeCustomer, exports.cleanupUser *)

EmailOf(userId) == userId \o "@example.com"

CustomerObjectIds == <<"cus_1", "cus_2", "cus_3", "cus_4", "cus_5", "cus_6">>

\* A JavaScript value handed to the provider where it expects an id.
JsString(str) == [t |-> "string", s |-> str, o |-> EmptyRec]
JsObject(obj) == [t |-> IF obj = EmptyRec THEN "null" ELSE "object", s |-> UNDEF, o |-> obj]

StartAuth(fn, userId) ==
  [fn |-> fn, user |-> userId, id |-> "", val |-> [uid |-> userId, email |-> EmailOf(userId)],
   pc |-> IF fn = "createTheStripeCustomer" THEN "create" ELSE "readtree",
   customer |-> UNDEF, subtree |-> EmptyRec, response |-> EmptyRec,
   error |-> NoError, rejection |-> NoError]

\* functions.auth.user().onCreate
AccountCreated(userId) ==
  /\ accounts[userId] = "none"
  /\ accounts' = [accounts EXCEPT ![userId] = "active"]
  /\ inv' = Append(inv, StartAuth("createTheStripeCustomer", userId))
  /\ UNCHANGED <<config, customer_id, charges, sources, pending, delivered,
                 redelivered, stripeCustomers, stripeCharges, stripeSources,
                 idempotency, calls, writes, reports, returned>>

\* functions.auth.user().onDelete
AccountDeleted(userId) ==
  /\ accounts[userId] = "active"
  /\ accounts' = [accounts EXCEPT ![userId] = "deleted"]
  /\ inv' = Append(inv, StartAuth("cleanupUser", userId))
  /\ UNCHANGED <<config, customer_id, charges, sources, pending, delivered,
                 redelivered, stripeCustomers, stripeCharges, stripeSources,
                 idempotency, calls, writes, reports, returned>>

\* At-least-once delivery: the platform invokes cleanupUser again for an
\* account that was deleted.
AccountDeletedAgain(userId) ==
  /\ accounts[userId] = "deleted"
  /\ redelivered < MaxRedeliver
  /\ redelivered' = redelivered + 1
  /\ inv' = Append(inv, StartAuth("cleanupUser", userId))
  /\ UNCHANGED <<config, customer_id, charges, sources, accounts, pending,
                 delivered, stripeCustomers, stripeCharges, stripeSources,
                 idempotency, calls, writes, reports, returned>>

\* The id the provider gives the next customer it creates.
NewCustomerId ==
  CustomerObjectIds[1 + Cardinality({j \in 1..Len(inv) :
      inv[j].fn = "createTheStripeCustomer" /\ inv[j].response # EmptyRec})]

\* stripe.customers.create(...).then(customer => ...set(customer.id)): the
\* write is chained on the creation's success, and the chain has no catch.
\* (variant: the write chained on the creation's failure as well)
AfterCreateAlways(ok) == "setid"
AfterCreate(ok) == IF ok THEN "setid" ELSE "rejected"

\* stripe.customers.create({email: data.email})
CreateCustomer(i) ==
  /\ Running(i)
  /\ inv[i].fn = "createTheStripeCustomer"
  /\ inv[i].pc = "create"
  /\ calls' = calls \cup {[inv |-> i, method |-> "customers.create",
                           payload |-> [email |-> inv[i].val.email], key |-> UNDEF]}
  /\ \E ok \in BOOLEAN :
       IF ok
         THEN /\ stripeCustomers' = stripeCustomers \cup {NewCustomerId}
              /\ inv' = [inv EXCEPT ![i].pc = AfterCreate(TRUE),
                                    ![i].response = [id |-> NewCustomerId,
                                                     object |-> "customer",
                                                     email |-> inv[i].val.email]]
         ELSE /\ inv' = [inv EXCEPT ![i].pc = AfterCreate(FALSE),
                                    ![i].rejection = ConnError]
              /\ UNCHANGED stripeCustomers
  /\ UNCHANGED <<config, customer_id, charges, sources, accounts, pending,
                 delivered, redelivered, stripeCharges, stripeSources,
                 idempotency, writes, reports, returned>>

\* customer => admin.database().ref(`/stripe_customers/${data.uid}/customer_id`).set(customer.id)
SetCustomerId(i) ==
  /\ Running(i)
  /\ inv[i].fn = "createTheStripeCustomer"
  /\ inv[i].pc = "setid"
  /\ LET u == inv[i].val.uid
         id == inv[i].response.id
     IN  \E ok \in BOOLEAN :
           IF ok
             THEN /\ customer_id' = [customer_id EXCEPT ![u] = id]
                  /\ writes' = writes \cup
                       {Writes(i, "customer_id", u, "", "", EmptyRec, id)}
                  /\ inv' = [inv EXCEPT ![i].pc = "resolved"]
             ELSE /\ inv' = [inv EXCEPT ![i].pc = "rejected",
                                        ![i].rejection = DbError]
                  /\ UNCHANGED <<customer_id, writes>>
  /\ UNCHANGED <<config, charges, sources, accounts, pending, delivered,
                 redelivered, stripeCustomers, stripeCharges, stripeSources,
                 idempotency, calls, reports, returned>>

\* The value of /stripe_customers/{uid}: the children that exist.
Subtree(userId) ==
  LET cs == {id \in ChargeIds : charges[userId][id] # EmptyRec}
      ss == {id \in PushIds : sources[userId][id] # EmptyRec}
      fields == (IF customer_id[userId] # JSNULL THEN {"customer_id"} ELSE {}) \cup
                (IF cs # {} THEN {"charges"} ELSE {}) \cup
                (IF ss # {} THEN {"sources"} ELSE {})
  IN  [f \in fields |->
         CASE f = "customer_id" -> customer_id[userId]
           [] f = "charges" -> [id \in cs |-> charges[userId][id]]
           [] f = "sources" -> [id \in ss |-> sources[userId][id]]]

\* admin.database().ref(`/stripe_customers/${event.data.uid}`).once('value')
ReadSubtree(i) ==
  /\ Running(i)
  /\ inv[i].fn = "cleanupUser"
  /\ inv[i].pc = "readtree"
  /\ inv' = [inv EXCEPT ![i].pc = "del", ![i].subtree = Subtree(inv[i].val.uid)]
  /\ UNCHANGED <<config, customer_id, charges, sources, accounts, pending,
                 delivered, redelivered, stripeCustomers, stripeCharges,
                 stripeSources, idempotency, calls, writes, reports,
                 returned>>

\* customer => stripe.customers.del(customer): the snapshot's whole value.
DelArgument(subtree) == JsObject(subtree)

\* .then(() => remove()): the removal is chained on the deletion's success.
\* (variant: the removal chained on the deletion's failure as well)
AfterDelAlways(ok) == "remove"
AfterDel(ok) == IF ok THEN "remove" ELSE "rejected"

\* stripe.customers.del(customer). The provider deletes the customer an id
\* names; what it answers is the provider's (or its test double's) choice.
DeleteCustomer(i) ==
  /\ Running(i)
  /\ inv[i].fn = "cleanupUser"
  /\ inv[i].pc = "del"
  /\ LET arg == DelArgument(inv[i].subtree)
     IN  /\ calls' = calls \cup {[inv |-> i, method |-> "customers.del",
                                  payload |-> [id |-> arg], key |-> UNDEF]}
         /\ \E ok \in BOOLEAN :
              /\ stripeCustomers' = IF ok /\ arg.t = "string"
                                      THEN stripeCustomers \ {arg.s}
                                      ELSE stripeCustomers
              /\ inv' = [inv EXCEPT ![i].pc = AfterDel(ok),
                                    ![i].error = IF ok THEN NoError ELSE MissingIdError,
                                    ![i].rejection = IF ok THEN NoError ELSE MissingIdError]
  /\ UNCHANGED <<config, customer_id, charges, sources, accounts, pending,
                 delivered, redelivered, stripeCharges, stripeSources,
                 idempotency, writes, reports, returned>>

\* admin.database().ref(`/stripe_customers/${event.data.uid}`).remove(): every
\* record under the account goes, and each charge and token path is notified.
RemoveSubtree(i) ==
  /\ Running(i)
  /\ inv[i].fn = "cleanupUser"
  /\ inv[i].pc = "remove"
  /\ LET u == inv[i].val.uid
     IN  \E ok \in BOOLEAN :
           IF ok
             THEN /\ customer_id' = [customer_id EXCEPT ![u] = JSNULL]
                  /\ charges' = [charges EXCEPT ![u] = [id \in ChargeIds |-> EmptyRec]]
                  /\ sources' = [sources EXCEPT ![u] = [id \in PushIds |-> EmptyRec]]
                  /\ pending' = pending \cup
                       {Notification("charges", u, id, EmptyRec) :
                          id \in {c \in ChargeIds : charges[u][c] # EmptyRec}} \cup
                       {Notification("sources", u, id, EmptyRec) :
                          id \in {p \in PushIds : "token" \in DOMAIN sources[u][p]}}
                  /\ writes' = writes \cup {Writes(i, "", u, "", "", EmptyRec, JSNULL)}
                  /\ inv' = [inv EXCEPT ![i].pc = "resolved"]
             ELSE /\ inv' = [inv EXCEPT ![i].pc = "rejected",
                                        ![i].rejection = DbError]
                  /\ UNCHANGED <<customer_id, charges, sources, pending, writes>>
  /\ UNCHANGED <<config, accounts, delivered, redelivered, stripeCustomers,
                 stripeCharges, stripeSources, idempotency, calls, reports,
                 returned>>

InitAccount ==
  /\ config = UNDEF
  /\ customer_id = [u \in Users |-> JSNULL]
  /\ stripeCustomers = {}
  /\ accounts = [u \in Users |-> "none"]
  /\ charges = [u \in Users |-> [id \in ChargeIds |-> EmptyRec]]
  /\ sources = [u \in Users |-> [id \in PushIds |-> EmptyRec]]
  /\ stripeSources = <<>>
  /\ pending = {}
  /\ delivered = {}
  /\ redelivered = 0
  /\ returned = {}
  /\ inv = <<>>
  /\ stripeCharges = <<>>
  /\ idempotency = [k \in {} |-> Saved(EmptyRec, NoError)]
  /\ calls = {}
  /\ writes = {}
  /\ reports = {}

NextAccount ==
  \/ \E u \in Users : AccountCreated(u)
  \/ \E u \in Users : AccountDeleted(u)
  \/ \E u \in Users : AccountDeletedAgain(u)
  \/ \E i \in 1..MaxInv :
       \/ CreateCustomer(i)
       \/ SetCustomerId(i)
       \/ ReadSubtree(i)
       \/ DeleteCustomer(i)
       \/ RemoveSubtree(i)

SpecAccount == InitAccount /\ [][NextAccount]_vars

-----------------------------------------------------------------------------
(* Account deletion while the account has charge and payment-source records *)

\* An account that may hold a payment-source record from earlier: a token
\* whose attachment failed, left in place beside the error.
InitCascade ==
  /\ config = UNDEF
  /\ \E registered \in SUBSET Users :
       /\ customer_id = [u \in Users |-> IF u \in registered THEN CustomerOf(u) ELSE JSNULL]
       /\ stripeCustomers = {CustomerOf(u) : u \in registered}
  /\ accounts = [u \in Users |-> "active"]
  /\ charges = [u \in Users |-> [id \in ChargeIds |-> EmptyRec]]
  /\ sources \in [Users -> [PushIds -> {EmptyRec} \cup
                     {[token |-> t, error |-> FallbackMessage] : t \in Tokens}]]
  /\ stripeSources = <<>>
  /\ pending = {}
  /\ delivered = {}
  /\ redelivered = 0
  /\ returned = {}
  /\ inv = <<>>
  /\ stripeCharges = <<>>
  /\ idempotency = [k \in {} |-> Saved(EmptyRec, NoError)]
  /\ calls = {}
  /\ writes = {}
  /\ reports = {}

\* The client's one write, the deletion of the account, and the deliveries:
\* the platform may deliver the notification of a removed record again.
NextCascade ==
  \/ \E u \in Users, id \in ChargeIds, req \in Requests : ClientPush(u, id, req)
  \/ \E u \in Users, id \in PushIds, token \in Tokens : ClientAddToken(u, id, token)
  \/ Bus
  \/ \E e \in delivered : e.val = EmptyRec /\ Redeliver(e)
  \/ Handlers
  \/ \E u \in Users : AccountDeleted(u)
  \/ \E i \in 1..(MaxInv + 1) :
       \/ ReadSubtree(i)
       \/ DeleteCustomer(i)
       \/ RemoveSubtree(i)

SpecCascade == InitCascade /\ [][NextCascade]_vars

-----------------------------------------------------------------------------
(* Properties *)

ChargeInvocations(userId, id) ==
  {i \in 1..Len(inv) : inv[i].fn = "createStripeCharge"
                         /\ inv[i].user = userId /\ inv[i].id = id}

ChargeCalls(userId, id) == {c \in calls : c.inv \in ChargeInvocations(userId, id)}

ChargesCreated(userId, id) ==
  {n \in 1..Len(stripeCharges) : stripeCharges[n].inv \in ChargeInvocations(userId, id)}

\* The record as a notification can show it: deleted, or carrying an id or an
\* error field.
Processed(val) == val = EmptyRec \/ "id" \in DOMAIN val \/ "error" \in DOMAIN val

\* C1: however often the write of a charge request is delivered, and however
\* the invocations interleave, every request the provider receives for the
\* record carries the record's id as idempotency key, and the provider creates
\* at most one charge for the record.
C1_NoDoubleCharge ==
  \A u \in Users, id \in ChargeIds :
    /\ \A c \in ChargeCalls(u, id) : c.key = id
    /\ Cardinality(ChargesCreated(u, id)) <= 1

\* C1 witness: the provider received the charge of one record twice and
\* created one charge.
C1_Witness ==
  \E u \in Users, id \in ChargeIds :
    /\ Cardinality(ChargeCalls(u, id)) >= 2
    /\ Cardinality(ChargesCreated(u, id)) = 1

\* C2, as stated: at most one provider charge call is issued for one id.
C2_AtMostOneCall ==
  \A u \in Users, id \in ChargeIds : Cardinality(ChargeCalls(u, id)) <= 1

\* C2, amended: the guard reads the notification's snapshot, so the provider is
\* called at most once per delivery of the request's own write: at most once
\* more than that write was redelivered, and never for the write-back.
C2_AtMostOneCallPerDelivery ==
  \A u \in Users, id \in ChargeIds :
    Cardinality(ChargeCalls(u, id)) <= 1 + redelivered

\* C2 witness: the write was redelivered and the provider was called twice,
\* the second time after the record was written back.
C2_Witness ==
  \E u \in Users, id \in ChargeIds :
    /\ Cardinality(ChargeCalls(u, id)) = 2
    /\ "id" \in DOMAIN charges[u][id]
    /\ \E e \in returned : e.user = u /\ e.id = id /\ "id" \in DOMAIN e.val

\* C3: an invocation whose notification shows the record deleted, or with an
\* id or an error field, returns at its guard: it is none of the invocations
\* that read the customer record, call the provider or write.
C3_NoopWhenProcessed ==
  /\ \A e \in delivered :
        (e.path = "charges" /\ Processed(e.val)) => e \in returned
  /\ \A i \in 1..Len(inv) :
        inv[i].fn = "createStripeCharge" => ~Processed(inv[i].val)
  /\ \A c \in calls : c.inv \in 1..Len(inv)
  /\ \A w \in writes : w.inv \in 1..Len(inv)

\* C3 witness: the handler ran on a deleted record, on a record with a
\* response id and on a record with an error.
C3_Witness ==
  \E d, r, x \in returned :
    /\ d.path = "charges" /\ d.val = EmptyRec
    /\ r.path = "charges" /\ "id" \in DOMAIN r.val
    /\ x.path = "charges" /\ "error" \in DOMAIN x.val

\* Nothing is left to deliver and every invocation has ended.
Quiescent == pending = {} /\ \A i \in 1..Len(inv) : Finished(i)

ChargeWritten == \E e \in pending \cup delivered : e.path = "charges"

\* C4: the write-back notifies the handler again, and no loop arises: whatever
\* the provider answered, every value a handler wrote back shows an id or an
\* error to the guard, and once a charge request is written the system comes
\* to rest, no notification undelivered and no invocation running.
C4_WriteBackTerminates ==
  /\ [](\A e \in pending \cup delivered :
          (e.path = "charges" /\ e.val \notin Requests) =>
            \/ e.val = EmptyRec
            \/ Truthy(Get(e.val, "id"))
            \/ Truthy(Get(e.val, "error")))
  /\ (ChargeWritten ~> Quiescent)

\* C4 witness: at rest after both kinds of write-back, each of which started
\* an invocation that returned at once.
C4_Witness ==
  /\ Quiescent
  /\ \E r, x \in returned :
       /\ r.path = "charges" /\ Truthy(Get(r.val, "id"))
       /\ x.path = "charges" /\ Truthy(Get(x.val, "error"))
  /\ \E i \in 1..Len(inv) : inv[i].fn = "createStripeCharge" /\ inv[i].pc = "resolved"

\* C5: every charge request sent for a fresh record is exactly {amount,
\* currency: the configured default, customer: the account's customer record},
\* with the record's source only when it has one, under the record's id as
\* idempotency key; and an invocation that resolved after the provider's
\* success wrote the provider's response to the record that triggered it.
C5_ChargeSubmitted ==
  \A u \in Users, id \in ChargeIds :
    /\ \A c \in ChargeCalls(u, id) :
         LET val == inv[c.inv].val
             configured == IF config \in {UNDEF, JSNULL, ""} THEN "USD" ELSE config
         IN  /\ c.key = id
             /\ c.payload =
                  IF "source" \in DOMAIN val
                    THEN [amount |-> val.amount, currency |-> configured,
                          customer |-> customer_id[u], source |-> val.source]
                    ELSE [amount |-> val.amount, currency |-> configured,
                          customer |-> customer_id[u]]
    /\ \A i \in ChargeInvocations(u, id) :
         (inv[i].pc = "resolved" /\ inv[i].response # EmptyRec) =>
           /\ \E n \in 1..Len(stripeCharges) :
                stripeCharges[n].key = id /\ stripeCharges[n].charge = inv[i].response
           /\ Writes(i, "charges", u, id, "", inv[i].response, UNDEF) \in writes

\* C5 witness: a request with a source, under a configured currency, was
\* charged to the account's customer and the response is the record.
C5_Witness ==
  \E u \in Users, id \in ChargeIds : \E i \in ChargeInvocations(u, id) :
    /\ inv[i].pc = "resolved"
    /\ "source" \in DOMAIN inv[i].val
    /\ config = "eur"
    /\ inv[i].response # EmptyRec
    /\ charges[u][id] = inv[i].response
    /\ charges[u][id].customer = customer_id[u]

\* C6, as stated: cleanupUser for an account with no customer record makes no
\* provider call and does not fail.
C6_DeletionWithoutCustomerIsNoop ==
  \A i \in 1..Len(inv) :
    (/\ inv[i].fn = "cleanupUser"
     /\ inv[i].pc # "readtree"
     /\ "customer_id" \notin DOMAIN inv[i].subtree) =>
      /\ \A c \in calls : c.inv # i
      /\ inv[i].pc # "rejected"

\* C7, as stated: once creation has stored a customer id and a deletion that
\* read it has finished, the account has no customer record, the provider has
\* no such customer, and the provider was asked to delete exactly that id.
C7_RoundTrip ==
  \A c, d \in 1..Len(inv) :
    (/\ inv[c].fn = "createTheStripeCustomer" /\ inv[c].pc = "resolved"
     /\ inv[d].fn = "cleanupUser" /\ Finished(d)
     /\ inv[d].user = inv[c].user
     /\ Get(inv[d].subtree, "customer_id") = inv[c].response.id) =>
      /\ customer_id[inv[c].user] = JSNULL
      /\ inv[c].response.id \notin stripeCustomers
      /\ \E r \in calls : /\ r.inv = d
                          /\ r.method = "customers.del"
                          /\ r.payload.id = JsString(inv[c].response.id)

\* C8: in cleanupUser the provider deletion comes first: an invocation removes
\* the local records only after its provider deletion succeeded, and one whose
\* provider deletion failed ends rejected without having written anything.
C8_DeletionBeforeRemoval ==
  \A i \in 1..Len(inv) :
    inv[i].fn = "cleanupUser" =>
      /\ (inv[i].pc = "remove" \/ \E w \in writes : w.inv = i) =>
           /\ \E c \in calls : c.inv = i /\ c.method = "customers.del"
           /\ inv[i].error = NoError
      /\ inv[i].error # NoError =>
           /\ inv[i].pc = "rejected"
           /\ \A w \in writes : w.inv # i

\* C8 witness: a provider deletion failed and the account's customer record
\* is still there.
C8_Witness ==
  \E i \in 1..Len(inv) :
    /\ inv[i].fn = "cleanupUser"
    /\ inv[i].pc = "rejected"
    /\ inv[i].error # NoError
    /\ "customer_id" \in DOMAIN inv[i].subtree
    /\ customer_id[inv[i].user] = inv[i].subtree.customer_id

\* C9: when the provider rejects a charge with an error that has a type, the
\* error field written to the record is that error's message, and the entry
\* the reporter writes carries the raw error with the context {user: userId}.
C9_TypedErrorPassedThrough ==
  \A i \in 1..Len(inv) :
    (inv[i].fn = "createStripeCharge" /\ Truthy(inv[i].error.type)) =>
      /\ (inv[i].pc \in {"report", "resolved"} \/ inv[i].rejection = SinkError) =>
           Writes(i, "charges", inv[i].user, inv[i].id, "error", EmptyRec,
                  inv[i].error.message) \in writes
      /\ inv[i].pc = "resolved" =>
           [inv |-> i,
            entry |-> [message |-> "Error: " \o inv[i].error.message \o "\n    at ...",
                       context |-> [user |-> inv[i].user]]] \in reports

\* C9 witness: a declined card: the record's error is the provider's message
\* and the sink holds the report.
C9_Witness ==
  \E i \in 1..Len(inv) :
    /\ inv[i].fn = "createStripeCharge"
    /\ inv[i].error = CardError
    /\ inv[i].pc = "resolved"
    /\ Get(charges[inv[i].user][inv[i].id], "error") = "Your card was declined."
    /\ \E r \in reports : r.inv = i

\* C10: an error with no type, handled by the error path of the charge or of
\* the payment-source handler, is written as the fallback string: its raw
\* message reaches no record.
C10_UntypedErrorGeneric ==
  /\ \A w \in writes :
       (w.child = "error" /\ ~Truthy(inv[w.inv].error.type)) =>
         /\ w.str = "An error occurred, developers have been alerted"
         /\ w.str # inv[w.inv].error.message
  /\ \A u \in Users :
       LET raw == {ConnError.message, DbError.message, SinkError.message,
                   MissingIdError.message}
       IN  /\ \A id \in ChargeIds : Get(charges[u][id], "error") \notin raw
           /\ \A id \in PushIds : Get(sources[u][id], "error") \notin raw

\* C10 witness: the provider could not be reached and the record's error is
\* the fallback string.
C10_Witness ==
  \E i \in 1..Len(inv) :
    /\ inv[i].fn = "createStripeCharge"
    /\ inv[i].error = ConnError
    /\ inv[i].pc \in {"report", "resolved", "rejected"}
    /\ Get(charges[inv[i].user][inv[i].id], "error") =
         "An error occurred, developers have been alerted"

\* C11: in createStripeCharge, a provider rejection whose report the sink
\* accepted ends the invocation resolved, with no rejection handed to the
\* platform; a report the sink refused ends it rejected with the sink's error.
C11_OutcomeByFailureKind ==
  \A i \in 1..Len(inv) :
    (inv[i].fn = "createStripeCharge" /\ inv[i].error # NoError) =>
      /\ (\E r \in reports : r.inv = i) =>
           inv[i].pc = "resolved" /\ inv[i].rejection = NoError
      /\ (inv[i].pc = "resolved") => \E r \in reports : r.inv = i
      /\ inv[i].rejection = SinkError =>
           inv[i].pc = "rejected" /\ \A r \in reports : r.inv # i

\* C11 witness: one delivery of a declined charge resolved after its report,
\* and a redelivery of it was rejected with the sink's error.
C11_Witness ==
  \E i, j \in 1..Len(inv) :
    /\ inv[i].fn = "createStripeCharge" /\ inv[j].fn = "createStripeCharge"
    /\ inv[i].error = CardError /\ inv[i].pc = "resolved"
    /\ \E r \in reports : r.inv = i
    /\ inv[j].error # NoError /\ inv[j].pc = "rejected"
    /\ inv[j].rejection = SinkError

SourceInvocations(userId, pushId) ==
  {i \in 1..Len(inv) : inv[i].fn = "addPaymentSource"
                         /\ inv[i].user = userId /\ inv[i].id = pushId}

SourcesAttached(userId, pushId) ==
  {n \in 1..Len(stripeSources) : stripeSources[n].inv \in SourceInvocations(userId, pushId)}

\* C12, as stated: however often the write of a token is delivered, the
\* token is attached at most once, and once the invocations it started have
\* ended after a write-back, the token leaf is gone from its record, which is
\* either the provider's response or an error, not both.
C12_TokenConsumedOnce ==
  \A u \in Users, p \in PushIds :
    /\ Cardinality(SourcesAttached(u, p)) <= 1
    /\ ((\E w \in writes : w.inv \in SourceInvocations(u, p))
         /\ \A i \in SourceInvocations(u, p) : Finished(i)) =>
          /\ "token" \notin DOMAIN sources[u][p]
          /\ ("id" \in DOMAIN sources[u][p]) # ("error" \in DOMAIN sources[u][p])

\* C13: addPaymentSource returns at once on a null token: no invocation that
\* reads, calls or writes stems from one. Otherwise it asks the provider to
\* attach the token to the customer the account's customer record names, and
\* what it writes goes to the token's parent record: the response as the
\* record, or the sanitized error as its error child, never the token leaf.
C13_SourceWrittenToParent ==
  /\ \A e \in delivered :
        (e.path = "sources" /\ e.val = EmptyRec) => e \in returned
  /\ \A i \in 1..Len(inv) :
        inv[i].fn = "addPaymentSource" =>
          /\ inv[i].val # EmptyRec
          /\ \A c \in calls :
                c.inv = i =>
                  /\ c.method = "customers.createSource"
                  /\ c.payload = [customer |-> customer_id[inv[i].user],
                                  source |-> inv[i].val.token]
          /\ \A w \in writes :
                w.inv = i =>
                  /\ w.path = "sources" /\ w.user = inv[i].user /\ w.id = inv[i].id
                  /\ w.child # "token"
                  /\ \/ w.child = "" /\ w.rec = inv[i].response /\ w.rec # EmptyRec
                     \/ /\ w.child = "error"
                        /\ inv[i].error # NoError
                        /\ w.str = (IF inv[i].error.type \in {UNDEF, JSNULL, ""}
                                      THEN FallbackMessage ELSE inv[i].error.message)
  /\ \A u \in Users, p \in PushIds :
        "token" \in DOMAIN sources[u][p] => sources[u][p].token \in Tokens

\* C13 witness: the response of one delivery and the error of a redelivery
\* are both in the parent record, and the null notification of the token the
\* response replaced was delivered and did nothing.
C13_Witness ==
  \E u \in Users, p \in PushIds : \E i, j \in SourceInvocations(u, p) :
    /\ inv[i].pc = "resolved" /\ inv[i].response # EmptyRec
    /\ inv[j].pc = "resolved" /\ inv[j].error # NoError
    /\ Get(sources[u][p], "id") = inv[i].response.id
    /\ Get(sources[u][p], "error") = inv[j].error.message
    /\ Notification("sources", u, p, EmptyRec) \in returned

\* C14: createTheStripeCustomer asks the provider once for a customer with
\* the account's email; it writes the account's customer record only after
\* the provider returned a customer, and writes that customer's id, which is
\* the record until the account is deleted; when the provider call was
\* rejected the invocation ends rejected, having written nothing and called
\* the provider no second time.
C14_CustomerCreatedThenStored ==
  \A i \in 1..Len(inv) :
    inv[i].fn = "createTheStripeCustomer" =>
      LET u == inv[i].user
          mine == {c \in calls : c.inv = i}
      IN  /\ mine \subseteq {[inv |-> i, method |-> "customers.create",
                               payload |-> [email |-> u \o "@example.com"],
                               key |-> UNDEF]}
          /\ inv[i].pc # "create" => mine # {}
          /\ \A w \in writes :
                w.inv = i =>
                  /\ inv[i].response # EmptyRec
                  /\ w = Writes(i, "customer_id", u, "", "", EmptyRec, inv[i].response.id)
          /\ (inv[i].pc = "resolved" /\ accounts[u] = "active") =>
                /\ customer_id[u] = inv[i].response.id
                /\ customer_id[u] \in stripeCustomers
          /\ inv[i].rejection = ConnError =>
                /\ inv[i].pc = "rejected"
                /\ inv[i].response = EmptyRec
                /\ \A w \in writes : w.inv # i
                /\ customer_id[u] = JSNULL

\* C14 witness: the provider refused to create the customer: the invocation
\* failed and the account has no customer record.
C14_Witness ==
  \E i \in 1..Len(inv) :
    /\ inv[i].fn = "createTheStripeCustomer"
    /\ inv[i].pc = "rejected"
    /\ inv[i].rejection = ConnError
    /\ \E c \in calls : c.inv = i /\ c.method = "customers.create"
    /\ customer_id[inv[i].user] = JSNULL
    /\ stripeCustomers = {}

\* C15, as stated: whatever the interleaving of the invocations of one charge
\* record, the record never carries a response id and an error together.
C15_IdXorError ==
  \A u \in Users, id \in ChargeIds :
    ~("id" \in DOMAIN charges[u][id] /\ "error" \in DOMAIN charges[u][id])

\* C16, as stated: a write-back to a charge record is a merge: every field
\* the record had before the write it still has after it.
C16_WriteBackMerges ==
  [][\A w \in writes' \ writes :
       w.path = "charges" =>
         \A f \in DOMAIN charges[w.user][w.id] :
           f \in DOMAIN charges'[w.user][w.id]]_vars

\* C16, amended: the write-back of a success replaces the record by the
\* provider's response, whatever the record held; the write-back of a failure
\* sets the record's error field to a string and leaves its other fields as
\* they were.
C16_WriteBackReplaces ==
  [][\A w \in writes' \ writes :
       w.path = "charges" =>
         IF w.child = ""
           THEN charges'[w.user][w.id] = w.rec /\ w.rec = inv[w.inv].response
           ELSE /\ w.child = "error"
                /\ w.str \in {inv[w.inv].error.message, FallbackMessage}
                /\ DOMAIN charges'[w.user][w.id] =
                     DOMAIN charges[w.user][w.id] \cup {"error"}
                /\ \A f \in DOMAIN charges'[w.user][w.id] :
                     charges'[w.user][w.id][f] =
                       IF f = "error" THEN w.str ELSE charges[w.user][w.id][f]]_vars

\* C16 witness: one invocation wrote an error into the record, and the
\* response another invocation wrote afterwards is the whole record: the
\* error field is gone.
C16_Witness ==
  \E u \in Users, id \in ChargeIds : \E i, j \in ChargeInvocations(u, id) :
    /\ Writes(i, "charges", u, id, "error", EmptyRec, FallbackMessage) \in writes
    /\ Writes(j, "charges", u, id, "", inv[j].response, UNDEF) \in writes
    /\ inv[j].response # EmptyRec
    /\ charges[u][id] = inv[j].response
    /\ "error" \notin DOMAIN charges[u][id]

C18_MissingCustomerUnguarded ==
  \A i \in 1..Len(inv) :
    (/\ inv[i].fn \in {"createStripeCharge", "addPaymentSource"}
     /\ inv[i].customer = JSNULL
     /\ inv[i].pc \notin {"charge", "attach"}) =>
      LET path == IF inv[i].fn = "createStripeCharge" THEN "charges" ELSE "sources"
          message == IF inv[i].error.type \in {UNDEF, JSNULL, ""}
                       THEN FallbackMessage ELSE inv[i].error.message
          written == Writes(i, path, inv[i].user, inv[i].id, "error", EmptyRec,
                            message) \in writes
      IN  /\ \E c \in calls :
                /\ c.inv = i
                /\ c.method \in {"charges.create", "customers.createSource"}
                /\ c.payload.customer = JSNULL
          /\ inv[i].response = EmptyRec /\ inv[i].error # NoError
          /\ inv[i].pc \in {"seterr", "report", "resolved", "rejected"}
          /\ inv[i].pc \in {"report", "resolved"} => written
          /\ inv[i].pc = "resolved" =>
                \E r \in reports : r.inv = i /\ r.entry.context = [user |-> inv[i].user]
          /\ inv[i].pc = "rejected" =>
                \/ inv[i].rejection = DbError /\ ~written
                \/ inv[i].rejection = SinkError /\ written

\* C18 witness: a charge of an account without customer record was sent to
\* the provider with a null customer, and the provider's rejection is the
\* record's error and was reported.
C18_Witness ==
  \E i \in 1..Len(inv) :
    /\ inv[i].fn = "createStripeCharge"
    /\ customer_id[inv[i].user] = JSNULL
    /\ inv[i].customer = JSNULL
    /\ inv[i].pc = "resolved"
    /\ \E c \in calls : c.inv = i /\ c.payload.customer = JSNULL
    /\ Get(charges[inv[i].user][inv[i].id], "error") = "No such customer"
    /\ \E r \in reports : r.inv = i

\* C19: on the error path of createStripeCharge and addPaymentSource the
\* reporter runs only after the sanitized error was written: an invocation
\* that is reporting, has reported or was failed by the sink has written its
\* error child before, and one whose error write failed ends rejected with
\* the database's error and never reports.
C19_ErrorWrittenBeforeReport ==
  \A i \in 1..Len(inv) :
    (inv[i].fn \in {"createStripeCharge", "addPaymentSource"}
       /\ inv[i].error # NoError) =>
      LET path == IF inv[i].fn = "createStripeCharge" THEN "charges" ELSE "sources"
          written == \E w \in writes :
                       /\ w.inv = i /\ w.path = path /\ w.child = "error"
                       /\ w.user = inv[i].user /\ w.id = inv[i].id
          reported == \E r \in reports : r.inv = i
      IN  /\ inv[i].pc = "seterr" => ~written /\ ~reported
          /\ inv[i].pc = "report" => written /\ ~reported
          /\ reported => written
          /\ inv[i].rejection = SinkError => written /\ ~reported
          /\ inv[i].rejection = DbError =>
                ~written /\ ~reported /\ inv[i].pc = "rejected"

\* C19 witness: the error of a charge was written to its record and the sink
\* then refused the report; on a redelivery the error write itself failed and
\* nothing was reported.
C19_Witness ==
  \E i, j \in 1..Len(inv) :
    /\ inv[i].fn = "createStripeCharge" /\ inv[i].rejection = SinkError
    /\ "error" \in DOMAIN charges[inv[i].user][inv[i].id]
    /\ inv[j].fn = "createStripeCharge" /\ inv[j].error # NoError
    /\ inv[j].rejection = DbError
    /\ reports = {}

\* The account's records were removed by cleanupUser.
Removed(userId) ==
  \E w \in writes : w.path = "" /\ w.user = userId /\ inv[w.inv].fn = "cleanupUser"

\* C20: the notifications the removal of an account's records produces show
\* a null value, which the guards of both handlers stop: every delivery of
\* one returned at once, so every invocation that reads, calls the provider
\* or writes was started by a client's own write, and every charge and every
\* attached source belongs to such an invocation.
C20_CascadeSafe ==
  /\ \A e \in pending \cup delivered : e.val = EmptyRec => Returns(e)
  /\ \A e \in delivered : e.val = EmptyRec => e \in returned
  /\ \A i \in 1..Len(inv) :
        inv[i].fn \in {"createStripeCharge", "addPaymentSource"} =>
          /\ inv[i].val # EmptyRec
          /\ inv[i].val \in Requests \cup {[token |-> t] : t \in Tokens}
  /\ \A c \in calls :
        c.method \in {"charges.create", "customers.createSource"} =>
          inv[c.inv].val # EmptyRec
  /\ \A n \in 1..Len(stripeCharges) : inv[stripeCharges[n].inv].val # EmptyRec
  /\ \A n \in 1..Len(stripeSources) : inv[stripeSources[n].inv].val # EmptyRec
  /\ \A u \in Users :
        (Removed(u) /\ \A i \in 1..Len(inv) : Finished(i)) =>
          \A w \in writes : inv[w.inv].val # EmptyRec \/ inv[w.inv].fn = "cleanupUser"

\* C20 witness: an account with a processed charge and a token record was
\* deleted; the null notifications of both records were delivered and did
\* nothing: the records are gone and the provider saw one charge request.
C20_Witness ==
  \E u \in Users, id \in ChargeIds, p \in PushIds :
    /\ Removed(u)
    /\ Notification("charges", u, id, EmptyRec) \in returned
    /\ Notification("sources", u, p, EmptyRec) \in returned
    /\ pending = {}
    /\ \A i \in 1..Len(inv) : Finished(i)
    /\ charges[u][id] = EmptyRec /\ sources[u][p] = EmptyRec
    /\ customer_id[u] = JSNULL
    /\ Cardinality({c \in calls : c.method = "charges.create"}) = 1
    /\ {c \in calls : c.method = "customers.createSource"} = {}

=============================================================================
